---- MODULE Spec2Model ----
(***************************************************************************)
(* The Monte Carlo annealers of piqmc: Anneal, Anneal_parallel and         *)
(* Anneal_multispin (sa.pyx) and QuantumMetropolisAccept / QuantumAnneal   *)
(* (qmc.pyx), as one state machine.  A behaviour is one call of one entry  *)
(* point: Init draws the entry point and its arguments, the actions are    *)
(* the steps of the call's loops.                                          *)
(*                                                                         *)
(* Numbers.  Couplings, temperatures and energy differences are integers.  *)
(* A uniform draw u is held as its negative logarithm: the draw q in       *)
(* 0..MaxNegLog is u = exp(-q) (q = 0 is u = 1, which only                 *)
(* crand()/RAND_MAX can produce) and q = ZeroDraw is u = 0.  With that,    *)
(* exp(ediff/T) > u is the integer comparison of ExpGreater.               *)
(* A transverse-field value is held as the coupling the formula of         *)
(* qmc.pyx:119 maps it to (field = P*T*artanh(exp(-2c/(P*T))) gives        *)
(* perpJ = c).                                                             *)
(***************************************************************************)
EXTENDS Integers, Sequences, FiniteSets, TLC

VARIABLES
    variant,              \* the entry point called
    sched,                \* sched / annealingSchedule, indexed from 0
    mcsteps,              \* mcsteps / mcSteps
    nbs,                  \* nbs / neighbors: nbs[i][si] = <<neighbor, jval>>
    nthreads,             \* Anneal_parallel's worker count
    trotterSlices,        \* QuantumAnneal's slice-count argument
    nSpins,               \* QuantumAnneal's spin-count argument
    annealingTemperature, \* QuantumAnneal's ambient temperature
    init,                 \* the caller's configuration before the call
    svec,                 \* Anneal, Anneal_parallel: the spin vector
    svec_mat,             \* Anneal_multispin: the replica x spin 0/1 matrix
    packed,               \* Anneal_multispin: its local svec of 64-bit words
    configurations,       \* QuantumAnneal: configurations[ispin][islice]
    pc,                   \* where the call stands
    outcome,              \* "none" while running, then how the call ended
    itemp, temp, step,    \* loop state of the sequential entry points
    sidx_shuff, pos,      \* the visit order and the place in it
    ediff,                \* the scalar accumulator (Anneal, QuantumMetropolisAccept)
    ediffs,               \* per-spin (parallel) or per-replica (multispin) accumulators
    rands,                \* Anneal_multispin's current batch of 64 draws
    slice_shuff, slice_pos, \* QuantumAnneal's slice order and the place in it
    perpJ, tleft, tright, \* QuantumAnneal / QuantumMetropolisAccept locals
    thr,                  \* Anneal_parallel's workers
    sweeps,               \* history: the schedule index of every finished sweep
    visited,              \* history: visits of each spin (or <<slice, spin>>) in the running sweep
    nvisits,              \* history: spin visits begun during the call
    perpJ_log,            \* history: schedule indices at which perpJ was computed
    refs,                 \* history: Anneal's rule run per replica beside Anneal_multispin
    unpack_idx            \* history: packed-word indices the unpacking loop touched

args == <<variant, sched, mcsteps, nbs, nthreads, trotterSlices, nSpins,
          annealingTemperature, init>>
confs == <<svec, svec_mat, packed, configurations>>
seqloop == <<itemp, temp, step, sidx_shuff, pos>>
qloop == <<slice_shuff, slice_pos, perpJ, tleft, tright>>
hist == <<sweeps, visited, nvisits, perpJ_log, refs, unpack_idx>>
vars == <<args, confs, pc, outcome, seqloop, ediff, ediffs, rands, qloop, thr, hist>>

----------------------------------------------------------------------------
(* Bounds of the model *)

MaxSpins == 2
MaxSweeps == 2
MaxNegLog == 2
MaxThreads == 2
MaxSlices == 3

(* Program constants *)

WordBits == 64

----------------------------------------------------------------------------
(* Values *)

xrange(n) == 0..(n - 1)

Spins == {-1, 1}

Couplings == {-1, 1}

\* the draw u = 0
ZeroDraw == MaxNegLog + 1

\* crand()/float(RAND_MAX): crand() is any of 0..RAND_MAX, so u is in [0, 1]
CrandDraws == 0..ZeroDraw

\* rng.uniform(0,1), rng.rand(64): u is in [0, 1)
UniformDraws == 1..ZeroDraw

\* visit orders drawn with replacement
choice(n) == [xrange(n) -> xrange(n)]

\* rng.permutation(range(n)): the orders that visit every index once
permutation(n) == {f \in [xrange(n) -> xrange(n)] :
                      \A i, j \in xrange(n) : f[i] = f[j] => i = j}

\* exp(e/T) > u for the draw q, T > 0.  exp of a finite argument is positive
\* (the arguments of the model are far from the underflow of exp).
ExpGreater(e, T, q) == IF q = ZeroDraw THEN TRUE ELSE e > -(q * T)

\* svec[sidx] *= -1 written as a decrement
FlipDecrement(s) == s - 1

\* svec[sidx] *= -1
Flip(s) == s * (-1)

\* a self-pair multiplied by the spin's own value twice
EnergyTermSquared(s, sidx, spinidx, jval, sn) == -2 * s * (jval * sn)

\* one neighbor entry's contribution: sa.pyx:86-90, qmc.pyx:61-64
EnergyTerm(s, sidx, spinidx, jval, sn) ==
    IF spinidx = sidx THEN -2 * s * jval ELSE -2 * s * (jval * sn)

\* the loop over a spin's neighbor entries si = from..maxnb-1, added to acc
RECURSIVE Accumulate(_, _, _, _, _)
Accumulate(acc, from, sv, sidx, nb) ==
    IF from >= Cardinality(DOMAIN nb) THEN acc
    ELSE Accumulate(acc + EnergyTerm(sv[sidx], sidx, nb[from][1], nb[from][2],
                                     sv[nb[from][1]]),
                    from + 1, sv, sidx, nb)

\* Anneal's decision, sa.pyx:92-95
AnnealAccept(e, T, q) == e >= 0 \/ ExpGreater(e, T, q)

\* Anneal_parallel's decision, sa.pyx:162-165
ParallelAccept(e, T, q) == e > 0 \/ ExpGreater(e, T, q)

\* QuantumMetropolisAccept's decision, qmc.pyx:79-84
QuantumAccept(e, T, q) == e > 0 \/ ExpGreater(e, T, q)

\* Anneal_multispin's decision for one replica, sa.pyx:264
MultispinAccept(e, T, q) == ExpGreater(e, T, q)

\* The model's field code f stands for the transverse field with
\* log(tanh(field / (P*T))) = -2f
LogTanh(f) == -(2 * f)

\* the logarithm of a negative number
NaN == "nan"

\* qmc.pyx:119-121.  A negative P*T makes the tanh negative and its
\* logarithm NaN; P = 0 makes the quotient infinite, the tanh 1 and the
\* product 0.
PerpJ(f, P, T) ==
    IF P * T < 0 THEN NaN
    ELSE IF P * T = 0 THEN 0
    ELSE -((P * T * LogTanh(f)) \div 2)

\* the sweep loop runs its body once more than asked
SweepsRemainInclusive(s, m) == s <= m

\* for step in xrange(mcsteps): is step s a sweep to run
SweepsRemain(s, m) == s < m

----------------------------------------------------------------------------
(* Arguments *)

\* every spin has the bias h as its only entry
SelfGraph(n, h) == [i \in xrange(n) |-> [si \in xrange(1) |-> <<i, h>>]]

\* every spin has the bias h and the coupling J to the next spin of a ring
RingGraph(n, h, J) ==
    [i \in xrange(n) |-> [si \in xrange(2) |->
        IF si = 0 THEN <<i, h>> ELSE <<(i + 1) % n, J>>]]

Graphs(n) == {SelfGraph(n, -1)} \cup {RingGraph(n, h, 1) : h \in Couplings}

\* a schedule of the given length: control values falling to 1
Schedule(len) == [i \in xrange(len) |-> len - i]

\* a schedule and a sweep count: at most MaxSweeps sweeps in a call
Runs == {r \in [sched : {Schedule(len) : len \in 0..MaxSweeps}, mcsteps : -1..MaxSweeps] :
            Cardinality(DOMAIN r.sched) * r.mcsteps <= MaxSweeps}

\* starting lattices: every slice a copy of one spin vector, or the odd
\* slices its negation
Lattices(n, P) ==
    {[i \in xrange(n) |-> [k \in xrange(P) |->
         IF k % 2 = 1 THEN odd * base[i] ELSE base[i]]] :
       base \in [xrange(n) -> Spins], odd \in Spins}

\* the lattices of QuantumAnneal: <<spins, slices>>
QuantumShapes == {sh \in (1..MaxSpins) \X (1..MaxSlices) :
                     sh[1] * sh[2] <= MaxSlices + 1}

\* counts a caller should not pass
NonPositive == {-1, 0}

Temperatures == {1, 2}

\* what a read one element past an array's end may find
Garbage == {-1, 0, 1}

schedsize == Cardinality(DOMAIN sched)

nspins == Cardinality(DOMAIN nbs)

maxnb == Cardinality(DOMAIN nbs[0])

----------------------------------------------------------------------------
(* The state before the call *)

Locals ==
    /\ pc = "call" /\ outcome = "none"
    /\ itemp = 0 /\ temp = 0 /\ step = 0 /\ pos = 0 /\ sidx_shuff = <<>>
    /\ ediff = 0 /\ ediffs = <<>> /\ rands = <<>>
    /\ slice_shuff = <<>> /\ slice_pos = 0 /\ perpJ = 0 /\ tleft = 0 /\ tright = 0
    /\ thr = <<>>
    /\ sweeps = <<>> /\ visited = <<>> /\ nvisits = 0 /\ perpJ_log = <<>>
    /\ refs = <<>> /\ unpack_idx = {}

InitAnneal ==
    /\ variant = "Anneal"
    /\ \E r \in Runs : sched = r.sched /\ mcsteps = r.mcsteps
    /\ \E n \in 1..MaxSpins : nbs \in Graphs(n) /\ svec \in [xrange(n) -> Spins]
    /\ init = svec
    /\ nthreads = 0 /\ trotterSlices = 0 /\ nSpins = 0 /\ annealingTemperature = 0
    /\ svec_mat = <<>> /\ packed = <<>> /\ configurations = <<>>
    /\ Locals

----------------------------------------------------------------------------
(* Anneal, sa.pyx:40-98 *)

\* the spin the sequential loops stand at
sidx == sidx_shuff[pos]

\* one more visit counted for index i
Visit(i) == [visited EXCEPT ![i] = @ + 1]

NoVisits(S) == [i \in S |-> 0]

\* sa.pyx:56-76: the locals, the first visit order, and the loop heads down to
\* the first spin; with no sweep to run the call returns
AnnealCall ==
    /\ pc = "call" /\ variant = "Anneal"
    /\ sidx_shuff' \in permutation(nspins)
    /\ visited' = NoVisits(xrange(nspins))
    /\ IF schedsize > 0 /\ SweepsRemain(0, mcsteps)
       THEN /\ pc' = "acc" /\ temp' = sched[0] /\ itemp' = 0
            /\ outcome' = outcome
       ELSE /\ pc' = "done" /\ outcome' = "returned"
            /\ itemp' = IF schedsize > 0 THEN schedsize - 1 ELSE 0
            /\ temp' = IF schedsize > 0 THEN sched[schedsize - 1] ELSE temp
    /\ UNCHANGED <<args, confs, step, pos, ediff, ediffs, rands, qloop, thr,
                   sweeps, nvisits, perpJ_log, refs, unpack_idx>>

\* sa.pyx:80-90: the neighbor loop of the visited spin
AnnealAccumulate ==
    /\ pc = "acc" /\ variant = "Anneal"
    /\ ediff' = Accumulate(ediff, 0, svec, sidx, nbs[sidx])
    /\ visited' = Visit(sidx)
    /\ nvisits' = nvisits + 1
    /\ pc' = "decide"
    /\ UNCHANGED <<args, confs, outcome, seqloop, ediffs, rands, qloop, thr,
                   sweeps, perpJ_log, refs, unpack_idx>>

\* the loop heads after the visit at (itemp, step, pos): sa.pyx:72-78, 98
\* (the same loops at sa.pyx:229-235, 281); after the last sweep the call
\* goes on at exitpc
LoopAdvance(exitpc) ==
    IF pos + 1 < nspins
    THEN /\ pos' = pos + 1
         /\ UNCHANGED <<itemp, temp, step, sidx_shuff, sweeps, visited>>
         /\ pc' = "acc"
    ELSE /\ pos' = 0
         /\ sidx_shuff' \in {[i \in xrange(nspins) |-> sidx_shuff[p[i]]] :
                                p \in permutation(nspins)}
         /\ sweeps' = Append(sweeps, itemp)
         /\ visited' = NoVisits(xrange(nspins))
         /\ IF SweepsRemain(step + 1, mcsteps)
            THEN /\ step' = step + 1 /\ UNCHANGED <<itemp, temp>>
                 /\ pc' = "acc"
            ELSE IF itemp + 1 < schedsize
            THEN /\ step' = 0 /\ itemp' = itemp + 1 /\ temp' = sched[itemp + 1]
                 /\ pc' = "acc"
            ELSE /\ UNCHANGED <<itemp, temp, step>>
                 /\ pc' = exitpc

\* sa.pyx:92-98: accept or reject, reset the accumulator, go on
AnnealDecide ==
    /\ pc = "decide" /\ variant = "Anneal"
    /\ \E accept \in {AnnealAccept(ediff, temp, q) : q \in CrandDraws} :
          svec' = IF accept THEN [svec EXCEPT ![sidx] = Flip(@)] ELSE svec
    /\ ediff' = 0
    /\ LoopAdvance("done")
    /\ outcome' = IF pc' = "done" THEN "returned" ELSE outcome
    /\ UNCHANGED <<args, svec_mat, packed, configurations, ediffs, rands, qloop,
                   thr, nvisits, perpJ_log, refs, unpack_idx>>

----------------------------------------------------------------------------
(* QuantumAnneal and QuantumMetropolisAccept, qmc.pyx:22-136 *)

InitQuantum ==
    /\ variant = "QuantumAnneal"
    /\ \E r \in Runs : sched = r.sched /\ mcsteps = r.mcsteps
    /\ annealingTemperature \in Temperatures
    /\ \E sh \in QuantumShapes :
          /\ nbs \in Graphs(sh[1])
          /\ configurations \in Lattices(sh[1], sh[2])
          /\ nSpins \in {sh[1]} \cup NonPositive
          /\ trotterSlices \in {sh[2]} \cup NonPositive
    /\ init = configurations
    /\ nthreads = 0
    /\ svec = <<>> /\ svec_mat = <<>> /\ packed = <<>>
    /\ Locals

\* the slice and the spin the loops of QuantumAnneal stand at
islice == slice_shuff[slice_pos]
ispin == sidx_shuff[pos]

\* configurations[:, k], the spin vector of slice k
SliceVector(k) == [i \in DOMAIN configurations |-> configurations[i][k]]

\* the field-schedule indices run through when the loops visit nothing
\* (qmc.pyx:117-126 with an empty range below the schedule loop)
EmptySteps ==
    IF mcsteps > 0
    THEN [k \in 1..(schedsize * mcsteps) |-> (k - 1) \div mcsteps]
    ELSE <<>>

\* qmc.pyx:117-126: the loop heads down to the first (slice, spin)
QuantumCall ==
    /\ pc = "call" /\ variant = "QuantumAnneal"
    /\ IF schedsize > 0 /\ SweepsRemain(0, mcsteps) /\ trotterSlices > 0 /\ nSpins > 0
       THEN /\ pc' = "acc" /\ outcome' = outcome
            /\ itemp' = 0
            /\ perpJ' = PerpJ(sched[0], trotterSlices, annealingTemperature)
            /\ perpJ_log' = <<0>>
            /\ slice_shuff' \in permutation(trotterSlices)
            /\ sidx_shuff' \in permutation(nSpins)
            /\ visited' = NoVisits(xrange(trotterSlices) \X xrange(nSpins))
            /\ sweeps' = sweeps
       ELSE /\ pc' = "done" /\ outcome' = "returned"
            /\ itemp' = IF schedsize > 0 THEN schedsize - 1 ELSE 0
            /\ perpJ' = IF schedsize > 0
                        THEN PerpJ(sched[schedsize - 1], trotterSlices,
                                   annealingTemperature)
                        ELSE perpJ
            /\ perpJ_log' = [k \in 1..schedsize |-> k - 1]
            /\ sweeps' = EmptySteps
            /\ UNCHANGED <<slice_shuff, sidx_shuff, visited>>
    /\ UNCHANGED <<args, confs, temp, step, pos, ediff, ediffs, rands, slice_pos,
                   tleft, tright, thr, nvisits, refs, unpack_idx>>

\* qmc.pyx:47-64: the intra-slice neighbor loop
QuantumAccumulate ==
    /\ pc = "acc" /\ variant = "QuantumAnneal"
    /\ ediff' = Accumulate(0, 0, SliceVector(islice), ispin, nbs[ispin])
    /\ visited' = Visit(<<islice, ispin>>)
    /\ nvisits' = nvisits + 1
    /\ pc' = "ring"
    /\ UNCHANGED <<args, confs, outcome, seqloop, ediffs, rands, qloop, thr,
                   sweeps, perpJ_log, refs, unpack_idx>>

\* P = tvec.size, qmc.pyx:51
TrotterSize == Cardinality(DOMAIN configurations[0])

\* qmc.pyx:66-74, the left neighbor slice
LeftSlice(tidx, P) ==
    IF tidx = 0 THEN P - 1 ELSE IF tidx = P - 1 THEN P - 2 ELSE tidx - 1

\* qmc.pyx:66-74, the right neighbor slice
RightSlice(tidx, P) ==
    IF tidx = 0 THEN 1 ELSE IF tidx = P - 1 THEN 0 ELSE tidx + 1

\* tvec[t] of tvec = configurations[ispin, :], read without a bounds check
\* (qmc.pyx:20): the values the read may give
TrotterRead(i, t) ==
    IF t \in DOMAIN configurations[i] THEN {configurations[i][t]} ELSE Garbage

\* qmc.pyx:65-77: the two inter-slice terms
QuantumRing ==
    /\ pc = "ring" /\ variant = "QuantumAnneal"
    /\ tleft' = LeftSlice(islice, TrotterSize)
    /\ tright' = RightSlice(islice, TrotterSize)
    /\ \E vl \in TrotterRead(ispin, tleft'), vr \in TrotterRead(ispin, tright') :
          ediff' = ediff + (-2 * configurations[ispin][islice] * (perpJ * vl))
                         + (-2 * configurations[ispin][islice] * (perpJ * vr))
    /\ pc' = "decide"
    /\ UNCHANGED <<args, confs, outcome, seqloop, ediffs, rands, slice_shuff,
                   slice_pos, perpJ, thr, hist>>

\* the loop heads after the visit at (itemp, step, slice_pos, pos):
\* qmc.pyx:117-126
QuantumAdvance ==
    IF pos + 1 < nSpins
    THEN /\ pos' = pos + 1
         /\ UNCHANGED <<itemp, step, sidx_shuff, slice_shuff, slice_pos, perpJ,
                        perpJ_log, sweeps, visited>>
         /\ pc' = "acc"
    ELSE /\ pos' = 0
         /\ sidx_shuff' \in permutation(nSpins)
         /\ IF slice_pos + 1 < trotterSlices
            THEN /\ slice_pos' = slice_pos + 1
                 /\ UNCHANGED <<itemp, step, slice_shuff, perpJ, perpJ_log,
                                sweeps, visited>>
                 /\ pc' = "acc"
            ELSE /\ slice_pos' = 0
                 /\ slice_shuff' \in permutation(trotterSlices)
                 /\ sweeps' = Append(sweeps, itemp)
                 /\ visited' = NoVisits(xrange(trotterSlices) \X xrange(nSpins))
                 /\ IF SweepsRemain(step + 1, mcsteps)
                    THEN /\ step' = step + 1
                         /\ UNCHANGED <<itemp, perpJ, perpJ_log>>
                         /\ pc' = "acc"
                    ELSE IF itemp + 1 < schedsize
                    THEN /\ step' = 0 /\ itemp' = itemp + 1
                         /\ perpJ' = PerpJ(sched[itemp + 1], trotterSlices,
                                           annealingTemperature)
                         /\ perpJ_log' = Append(perpJ_log, itemp + 1)
                         /\ pc' = "acc"
                    ELSE /\ UNCHANGED <<itemp, step, perpJ, perpJ_log>>
                         /\ pc' = "done"

\* qmc.pyx:78-84 and 128-136: the decision, the return (the locals of
\* QuantumMetropolisAccept are back at their declared values for the next
\* call, qmc.pyx:47-53) and the flip in place
QuantumDecide ==
    /\ pc = "decide" /\ variant = "QuantumAnneal"
    /\ \E accept \in {QuantumAccept(ediff, annealingTemperature, q) :
                         q \in UniformDraws} :
          configurations' =
              IF accept THEN [configurations EXCEPT ![ispin][islice] = Flip(@)]
              ELSE configurations
    /\ ediff' = 0 /\ tleft' = 0 /\ tright' = 0
    /\ QuantumAdvance
    /\ outcome' = IF pc' = "done" THEN "returned" ELSE outcome
    /\ UNCHANGED <<args, svec, svec_mat, packed, temp, ediffs, rands, thr,
                   nvisits, refs, unpack_idx>>

----------------------------------------------------------------------------
(* Anneal_parallel, sa.pyx:104-165.  Every worker of the parallel block    *)
(* runs the schedule and sweep loops itself; prange shares out the spins   *)
(* of one sweep and ends in the barrier of an OpenMP worksharing loop.     *)

InitParallel ==
    /\ variant = "Anneal_parallel"
    /\ \E r \in Runs : sched = r.sched /\ mcsteps = r.mcsteps
    /\ \E n \in 1..MaxSpins : nbs \in Graphs(n) /\ svec \in [xrange(n) -> Spins]
    /\ init = svec
    /\ nthreads \in 1..MaxThreads
    /\ trotterSlices = 0 /\ nSpins = 0 /\ annealingTemperature = 0
    /\ svec_mat = <<>> /\ packed = <<>> /\ configurations = <<>>
    /\ Locals

\* schedule='static' without a chunk size: one contiguous block per worker,
\* the first nspins % nthreads blocks one longer
ChunkLen(t) == (nspins \div nthreads) + (IF t < nspins % nthreads THEN 1 ELSE 0)

ChunkStart(t) ==
    t * (nspins \div nthreads)
    + (IF t < nspins % nthreads THEN t ELSE nspins % nthreads)

\* the spin worker t stands at
WorkerSpin(t) == ChunkStart(t) + thr[t].k

\* where a worker starts a sweep
SweepEntry(t) == IF ChunkLen(t) > 0 THEN "reset" ELSE "barrier"

\* sa.pyx:126-148: the locals, the team, each worker's loop heads
ParallelCall ==
    /\ pc = "call" /\ variant = "Anneal_parallel"
    /\ ediffs' = [i \in xrange(nspins) |-> 0]
    /\ IF schedsize > 0 /\ SweepsRemain(0, mcsteps)
       THEN /\ pc' = "par" /\ outcome' = outcome
            /\ thr' = [t \in xrange(nthreads) |->
                         [pc |-> SweepEntry(t), itemp |-> 0, temp |-> sched[0],
                          step |-> 0, gen |-> 0, k |-> 0, si |-> 0, seen |-> <<>>]]
       ELSE /\ pc' = "done" /\ outcome' = "returned" /\ thr' = thr
    /\ UNCHANGED <<args, confs, seqloop, ediff, rands, qloop, hist>>

\* sa.pyx:149: the visited spin's slot starts from zero
ParallelReset(t) ==
    /\ pc = "par" /\ t \in DOMAIN thr /\ thr[t].pc = "reset"
    /\ ediffs' = [ediffs EXCEPT ![WorkerSpin(t)] = 0]
    /\ thr' = [thr EXCEPT ![t].pc = IF maxnb > 0 THEN "acc" ELSE "decide",
                          ![t].si = 0, ![t].seen = <<>>]
    /\ nvisits' = nvisits + 1
    /\ UNCHANGED <<args, confs, pc, outcome, seqloop, ediff, rands, qloop,
                   sweeps, visited, perpJ_log, refs, unpack_idx>>

\* sa.pyx:151-160: one neighbor entry, read from the shared spin vector
ParallelAccumulate(t) ==
    /\ pc = "par" /\ t \in DOMAIN thr /\ thr[t].pc = "acc"
    /\ LET i == WorkerSpin(t)
           nb == nbs[i][thr[t].si]
       IN /\ ediffs' = [ediffs EXCEPT ![i] =
                          @ + EnergyTerm(svec[i], i, nb[1], nb[2], svec[nb[1]])]
          /\ thr' = [thr EXCEPT
                       ![t].seen = Append(@, svec[nb[1]]),
                       ![t].si = @ + 1,
                       ![t].pc = IF thr[t].si + 1 < maxnb THEN "acc" ELSE "decide"]
    /\ UNCHANGED <<args, confs, pc, outcome, seqloop, ediff, rands, qloop, hist>>

\* sa.pyx:161-165: accept or reject; then the next spin of the block, or the
\* end of the worksharing loop
ParallelDecide(t) ==
    /\ pc = "par" /\ t \in DOMAIN thr /\ thr[t].pc = "decide"
    /\ \E accept \in {ParallelAccept(ediffs[WorkerSpin(t)], thr[t].temp, q) :
                         q \in CrandDraws} :
          svec' = IF accept THEN [svec EXCEPT ![WorkerSpin(t)] = Flip(@)] ELSE svec
    /\ thr' = [thr EXCEPT
                 ![t].pc = IF thr[t].k + 1 < ChunkLen(t) THEN "reset" ELSE "barrier",
                 ![t].k = IF thr[t].k + 1 < ChunkLen(t) THEN @ + 1 ELSE 0,
                 ![t].si = 0, ![t].seen = <<>>]
    /\ UNCHANGED <<args, svec_mat, packed, configurations, pc, outcome, seqloop,
                   ediff, ediffs, rands, qloop, hist>>

\* a worksharing loop given nowait: nobody waits
BarrierNoWait(t) == TRUE

\* the implicit barrier at the end of prange (nowait is not given,
\* sa.pyx:148): worker t leaves once every worker has finished the sweep
BarrierOpen(t) ==
    \A u \in DOMAIN thr :
        \/ thr[u].gen > thr[t].gen
        \/ thr[u].gen = thr[t].gen /\ thr[u].pc = "barrier"

\* sa.pyx:141-148: past the barrier, the worker's own loop heads
ParallelBarrier(t) ==
    /\ pc = "par" /\ t \in DOMAIN thr /\ thr[t].pc = "barrier"
    /\ BarrierOpen(t)
    /\ thr' = [thr EXCEPT ![t] =
                 IF SweepsRemain(@.step + 1, mcsteps)
                 THEN [@ EXCEPT !.step = @ + 1, !.gen = @ + 1, !.pc = SweepEntry(t)]
                 ELSE IF @.itemp + 1 < schedsize
                 THEN [@ EXCEPT !.step = 0, !.itemp = @ + 1,
                                !.temp = sched[thr[t].itemp + 1],
                                !.gen = @ + 1, !.pc = SweepEntry(t)]
                 ELSE [@ EXCEPT !.gen = @ + 1, !.pc = "done"]]
    /\ UNCHANGED <<args, confs, pc, outcome, seqloop, ediff, ediffs, rands,
                   qloop, hist>>

\* sa.pyx:139: the parallel block ends when every worker has left it
ParallelJoin ==
    /\ pc = "par"
    /\ \A t \in DOMAIN thr : thr[t].pc = "done"
    /\ pc' = "done" /\ outcome' = "returned"
    /\ UNCHANGED <<args, confs, seqloop, ediff, ediffs, rands, qloop, thr, hist>>

Workers == xrange(MaxThreads)

----------------------------------------------------------------------------
(* Anneal_multispin, sa.pyx:182-286.  A 64-bit word is a function from the *)
(* bit position (0 the lowest) to the bit.                                 *)

Replicas == xrange(WordBits)

ZeroWord == [b \in xrange(WordBits) |-> 0]
OnesWord == [b \in xrange(WordBits) |-> 1]

\* s << 1 on np.uint64: the top bit falls off
ShiftLeft(s) == [b \in xrange(WordBits) |-> IF b = 0 THEN 0 ELSE s[b - 1]]

\* s ^ 0x01
XorOne(s) == [s EXCEPT ![0] = 1 - @]

\* a ^ b
Xor(a, b) == [i \in xrange(WordBits) |-> (a[i] + b[i]) % 2]

\* sa.pyx:171-175
getbit(s, k) == s[k]

\* sa.pyx:222-227: the rows k.. of column si shifted into the word s
RECURSIVE PackWord(_, _, _, _)
PackWord(mat, si, k, s) ==
    IF k >= Cardinality(DOMAIN mat) THEN s
    ELSE PackWord(mat, si, k + 1,
                  IF mat[k][si] # 0 THEN XorOne(ShiftLeft(s)) ELSE ShiftLeft(s))

\* sa.pyx:245-250, 256-261: one neighbor entry's contribution to replica k,
\* read off bit 63 - k of the word w (the spin's own word, or its XOR with
\* the neighbor's)
BitTerm(w, k, jval) ==
    IF getbit(w, (WordBits - 1) - k) = 0 THEN -(2 * jval) ELSE 2 * jval

\* sa.pyx:237-261: the neighbor loop from entry `from` on, for all replicas
RECURSIVE MultiAccumulate(_, _, _, _, _)
MultiAccumulate(acc, from, words, i, nb) ==
    IF from >= Cardinality(DOMAIN nb) THEN acc
    ELSE LET w == IF nb[from][1] = i THEN words[i]
                  ELSE Xor(words[i], words[nb[from][1]])
         IN MultiAccumulate([k \in Replicas |-> acc[k] + BitTerm(w, k, nb[from][2])],
                            from + 1, words, i, nb)

\* sa.pyx:266-273: the signs 0..k shifted into a word
RECURSIVE FlipMask(_, _)
FlipMask(sign, k) ==
    IF k = 0 THEN [b \in xrange(WordBits) |-> IF b = 0 /\ sign[0] THEN 1 ELSE 0]
    ELSE IF sign[k] THEN XorOne(ShiftLeft(FlipMask(sign, k - 1)))
    ELSE ShiftLeft(FlipMask(sign, k - 1))

\* sa.pyx:284: bin(s)[2:].rjust(64, '0'), character k
BinaryDigit(s, k) == s[(WordBits - 1) - k]

\* rng.rand(64): the batches the model draws, one draw for the even
\* replicas and one for the odd
RandBatches == {[k \in Replicas |-> IF k % 2 = 0 THEN a ELSE b] :
                   a \in {1, ZeroDraw}, b \in {1, ZeroDraw}}

\* the starting matrices: the even rows one 0/1 vector, the odd rows the same
\* vector or its complement
Matrices(n) ==
    {[k \in Replicas |-> [i \in xrange(n) |->
         IF k % 2 = 1 /\ ~same THEN 1 - row[i] ELSE row[i]]] :
       row \in [xrange(n) -> {0, 1}], same \in BOOLEAN}

\* bit 0 is the spin +1, bit 1 the spin -1
SpinOfBit(b) == IF b = 0 THEN 1 ELSE -1

InitMultispin ==
    /\ variant = "Anneal_multispin"
    /\ \E r \in Runs : sched = r.sched /\ mcsteps = r.mcsteps
    /\ \E n \in 1..MaxSpins : nbs \in Graphs(n) /\ svec_mat \in Matrices(n)
    /\ init = svec_mat
    /\ nthreads = 0 /\ trotterSlices = 0 /\ nSpins = 0 /\ annealingTemperature = 0
    /\ svec = <<>> /\ packed = <<>> /\ configurations = <<>>
    /\ Locals

\* sa.pyx:200-235: the locals, the packing of the matrix, the loop heads
MultispinCall ==
    /\ pc = "call" /\ variant = "Anneal_multispin"
    /\ packed' = [si \in xrange(nspins) |-> PackWord(svec_mat, si, 0, ZeroWord)]
    /\ ediffs' = [k \in Replicas |-> 0]
    /\ rands' \in RandBatches
    /\ sidx_shuff' \in permutation(nspins)
    /\ visited' = NoVisits(xrange(nspins))
    /\ refs' = [k \in Replicas |-> [i \in xrange(nspins) |-> SpinOfBit(svec_mat[k][i])]]
    /\ IF schedsize > 0 /\ SweepsRemain(0, mcsteps)
       THEN pc' = "acc" /\ temp' = sched[0] /\ itemp' = 0
       ELSE /\ pc' = "unpack"
            /\ itemp' = IF schedsize > 0 THEN schedsize - 1 ELSE 0
            /\ temp' = IF schedsize > 0 THEN sched[schedsize - 1] ELSE temp
    /\ UNCHANGED <<args, svec, svec_mat, configurations, outcome, step, pos,
                   ediff, qloop, thr, sweeps, nvisits, perpJ_log, unpack_idx>>

\* sa.pyx:237-261: the neighbor loop of the visited spin, all replicas
MultispinAccumulate ==
    /\ pc = "acc" /\ variant = "Anneal_multispin"
    /\ ediffs' = MultiAccumulate(ediffs, 0, packed, sidx, nbs[sidx])
    /\ visited' = Visit(sidx)
    /\ nvisits' = nvisits + 1
    /\ pc' = "decide"
    /\ UNCHANGED <<args, confs, outcome, seqloop, ediff, rands, qloop, thr,
                   sweeps, perpJ_log, refs, unpack_idx>>

\* Anneal's rule for replica k's own spin vector and draw, sa.pyx:80-95
ReferenceStep(sv, i, T, q) ==
    IF AnnealAccept(Accumulate(0, 0, sv, i, nbs[i]), T, q)
    THEN [sv EXCEPT ![i] = Flip(@)] ELSE sv

\* sa.pyx:262-281: the signs, the flip mask, the flip, the reset, new draws,
\* go on
MultispinFlip ==
    /\ pc = "decide" /\ variant = "Anneal_multispin"
    /\ LET sign == [k \in Replicas |-> MultispinAccept(ediffs[k], temp, rands[k])]
       IN packed' = [packed EXCEPT ![sidx] = Xor(@, FlipMask(sign, WordBits - 1))]
    /\ refs' = [k \in Replicas |-> ReferenceStep(refs[k], sidx, temp, rands[k])]
    /\ ediffs' = [k \in Replicas |-> 0]
    /\ rands' \in RandBatches
    /\ LoopAdvance("unpack")
    /\ UNCHANGED <<args, svec, svec_mat, configurations, outcome, ediff, qloop,
                   thr, nvisits, perpJ_log, unpack_idx>>

\* the words a read one element past the packed array may find
GarbageWords == {ZeroWord, OnesWord}

\* sa.pyx:283: the indices the unpacking loop runs over
UnpackRange == xrange(nspins + 1)

\* sa.pyx:283-286: the unpacking loop.  Its last turn reads packed[nspins]
\* and writes column nspins of every row, neither bounds-checked
\* (sa.pyx:178-179): in a row-major matrix the write to [k, nspins] lands on
\* [k + 1, 0] (and past the matrix for the last row); with other strides it
\* lands outside the matrix; the process may also die on either access.
MultispinUnpack ==
    /\ pc = "unpack" /\ variant = "Anneal_multispin"
    /\ unpack_idx' = UnpackRange
    /\ \E g \in GarbageWords, rowmajor \in BOOLEAN :
          svec_mat' = [k \in Replicas |-> [i \in xrange(nspins) |->
              IF nspins \in UnpackRange /\ rowmajor /\ i = 0 /\ k > 0
              THEN BinaryDigit(g, k - 1)
              ELSE BinaryDigit(packed[i], k)]]
    /\ outcome' \in IF nspins \in UnpackRange THEN {"returned", "crashed"}
                    ELSE {"returned"}
    /\ pc' = "done"
    /\ UNCHANGED <<args, svec, packed, configurations, seqloop, ediff, ediffs,
                   rands, qloop, thr, sweeps, visited, nvisits, perpJ_log, refs>>

----------------------------------------------------------------------------

Init == InitAnneal \/ InitParallel \/ InitMultispin \/ InitQuantum

\* the steps of Anneal, Anneal_parallel and QuantumAnneal
NextSpins ==
    \/ AnnealCall \/ AnnealAccumulate \/ AnnealDecide
    \/ ParallelCall \/ ParallelJoin
    \/ \E t \in Workers : ParallelReset(t)
    \/ \E t \in Workers : ParallelAccumulate(t)
    \/ \E t \in Workers : ParallelDecide(t)
    \/ \E t \in Workers : ParallelBarrier(t)
    \/ QuantumCall \/ QuantumAccumulate \/ QuantumRing \/ QuantumDecide

Next ==
    \/ MultispinCall \/ MultispinAccumulate \/ MultispinFlip \/ MultispinUnpack
    \/ NextSpins

\* a call of any of the four entry points
Spec == Init /\ [][Next]_vars

\* a call of an entry point whose configuration holds the spins themselves
InitSpins == InitAnneal \/ InitParallel \/ InitQuantum

SpecSpins == InitSpins /\ [][NextSpins]_vars

----------------------------------------------------------------------------
(* Properties *)

\* the caller's configuration, whichever entry point holds it
Configuration ==
    CASE variant = "Anneal_multispin" -> svec_mat
      [] variant = "QuantumAnneal" -> configurations
      [] OTHER -> svec

RECURSIVE SumOver(_, _)
SumOver(S, f) ==
    IF S = {} THEN 0
    ELSE LET x == CHOOSE y \in S : TRUE IN f[x] + SumOver(S \ {x}, f)

\* the energy difference of flipping spin i of value s: over the entries of
\* nb, -2 s J for a self-pair and -2 s J v for a neighbor whose value is v
\* (nv[si] the value of entry si's neighbor)
EnergyDifference(s, i, nb, nv) ==
    SumOver(DOMAIN nb,
            [si \in DOMAIN nb |->
                IF nb[si][1] = i THEN -2 * s * nb[si][2]
                ELSE -2 * s * nb[si][2] * nv[si]])

\* C1: in every entry point a visited spin whose energy difference is >= 0
\* is flipped, whatever the draw
C1_NonNegativeAlwaysFlips ==
    [][/\ (variant = "Anneal" /\ pc = "decide" /\ ediff >= 0)
            => svec'[sidx] = -svec[sidx]
       /\ (variant = "QuantumAnneal" /\ pc = "decide" /\ ediff >= 0)
            => configurations'[ispin][islice] = -configurations[ispin][islice]
       /\ (variant = "Anneal_multispin" /\ pc = "decide")
            => \A k \in Replicas :
                  ediffs[k] >= 0 =>
                      BinaryDigit(packed'[sidx], k) # BinaryDigit(packed[sidx], k)
       /\ variant = "Anneal_parallel"
            => \A t \in DOMAIN thr :
                  (/\ thr[t].pc = "decide"
                   /\ t \in DOMAIN thr' /\ thr'[t] # thr[t]
                   /\ ediffs[WorkerSpin(t)] >= 0)
                  => svec'[WorkerSpin(t)] = -svec[WorkerSpin(t)]
      ]_vars

\* C2: the energy difference a decision is taken on is the sum over the
\* visited spin's entries of -2 s J (self-pair) and -2 s J s_neighbor
\* (otherwise), -2 s J for a lone self-pair, and every visit starts the
\* accumulator from 0
C2_EnergyDifferenceIsTheSum ==
    /\ variant = "Anneal" =>
          /\ pc = "acc" => ediff = 0
          /\ pc = "decide" =>
                /\ ediff = EnergyDifference(svec[sidx], sidx, nbs[sidx],
                               [si \in DOMAIN nbs[sidx] |-> svec[nbs[sidx][si][1]]])
                /\ (nspins = 1 /\ maxnb = 1) => ediff = -2 * svec[0] * nbs[0][0][2]
    /\ variant = "Anneal_parallel" =>
          \A t \in DOMAIN thr :
             /\ (thr[t].pc = "acc" /\ thr[t].si = 0) => ediffs[WorkerSpin(t)] = 0
             /\ thr[t].pc = "decide" =>
                   ediffs[WorkerSpin(t)] =
                       EnergyDifference(svec[WorkerSpin(t)], WorkerSpin(t),
                           nbs[WorkerSpin(t)],
                           [si \in DOMAIN nbs[WorkerSpin(t)] |-> thr[t].seen[si + 1]])
    /\ (variant = "QuantumAnneal" /\ pc = "ring") =>
          ediff = EnergyDifference(configurations[ispin][islice], ispin, nbs[ispin],
                      [si \in DOMAIN nbs[ispin] |->
                          configurations[nbs[ispin][si][1]][islice]])

\* a decision of Anneal on a one-spin graph whose only entry is a self-pair
C2_Witness ==
    /\ variant = "Anneal" /\ pc = "decide" /\ nspins = 1 /\ maxnb = 1
    /\ svec[0] = -1 /\ ediff = 2 * nbs[0][0][2] /\ Len(sweeps) = 1

\* C3: with identical starting rows, when Anneal_multispin has ended every
\* entry of row k is the bit of the state Anneal's rule yields for replica k
C3_MultispinMatchesAnneal ==
    (/\ variant = "Anneal_multispin" /\ pc = "done"
     /\ \A k \in Replicas : init[k] = init[0])
    => \A k \in Replicas : \A i \in xrange(nspins) :
          SpinOfBit(svec_mat[k][i]) = refs[k][i]

\* C4: the slices QuantumMetropolisAccept couples a slice to are its two
\* neighbors on the ring of P slices, both of them slices
C4_RingNeighbors ==
    (variant = "QuantumAnneal" /\ pc = "decide") =>
       /\ tleft = (islice - 1) % TrotterSize
       /\ tright = (islice + 1) % TrotterSize
       /\ tleft \in xrange(TrotterSize) /\ tright \in xrange(TrotterSize)

\* every entry of the configuration is a spin
SpinValues ==
    CASE variant = "QuantumAnneal" ->
            \A i \in DOMAIN configurations : \A k \in DOMAIN configurations[i] :
               configurations[i][k] \in Spins
      [] variant = "Anneal_multispin" -> TRUE
      [] OTHER -> \A i \in DOMAIN svec : svec[i] \in Spins

\* a step leaves the configuration alone or negates the visited entry
NegatesVisited ==
    CASE variant = "Anneal" ->
            \/ svec' = svec
            \/ pc = "decide" /\ svec' = [svec EXCEPT ![sidx] = -svec[sidx]]
      [] variant = "Anneal_parallel" ->
            \/ svec' = svec
            \/ \E t \in DOMAIN thr :
                  /\ thr[t].pc = "decide"
                  /\ svec' = [svec EXCEPT ![WorkerSpin(t)] = -svec[WorkerSpin(t)]]
      [] variant = "QuantumAnneal" ->
            \/ configurations' = configurations
            \/ /\ pc = "decide"
               /\ configurations' = [configurations EXCEPT ![ispin][islice] =
                                        -configurations[ispin][islice]]
      [] OTHER -> TRUE

\* C5: every entry of the configuration stays +1 or -1, and a step changes
\* the configuration only by negating the visited entry
C5_SpinsStaySpins == []SpinValues /\ [][NegatesVisited]_vars

\* two workers of Anneal_parallel in the middle of a sweep, a spin flipped
C5_Witness ==
    /\ variant = "Anneal_parallel" /\ pc = "par" /\ nthreads = 2 /\ nspins = 2
    /\ thr[0].pc = "decide" /\ thr[1].pc = "barrier"
    /\ svec[1] # init[1]

\* C6: a call with a zero-length schedule ends with the configuration as it
\* was before the call
C6_EmptyScheduleChangesNothing ==
    (pc = "done" /\ schedsize = 0) => Configuration = init

\* a count the caller should not pass
NonPositiveCount ==
    \/ mcsteps <= 0
    \/ variant = "QuantumAnneal" /\ (nSpins <= 0 \/ trotterSlices <= 0)

\* C7: a call with a non-positive sweep, spin or slice count ends in an
\* error, no spin visited and the configuration unchanged
C7_NonPositiveCountRejected ==
    (pc = "done" /\ NonPositiveCount) =>
       outcome = "error" /\ nvisits = 0 /\ Configuration = init

\* C7 as amended: such a call of Anneal, Anneal_parallel or QuantumAnneal
\* is not rejected; it visits no spin, leaves the configuration unchanged
\* and returns normally
C7_NonPositiveCountIsNoOp ==
    NonPositiveCount =>
       /\ nvisits = 0 /\ Configuration = init
       /\ pc \in {"call", "done"}
       /\ pc = "done" => outcome = "returned"

\* QuantumAnneal returned from a call with no slices, sweeps asked for
C7_Witness ==
    /\ variant = "QuantumAnneal" /\ pc = "done" /\ outcome = "returned"
    /\ trotterSlices = 0 /\ mcsteps > 0 /\ schedsize > 0 /\ nSpins > 0

\* worker t is updating a spin
Updating(t) == thr[t].pc \in {"reset", "acc", "decide"}

\* C8: the workers of Anneal_parallel that are updating spins are in the
\* same sweep of the same schedule value at the same temperature, and a
\* worker is in a later sweep than another only when that one has finished
\* all its updates of the sweep before and waits at its end
C8_NoWorkerStraddlesASweep ==
    variant = "Anneal_parallel" =>
       \A t, u \in DOMAIN thr :
          /\ (Updating(t) /\ Updating(u)) =>
                /\ thr[t].itemp = thr[u].itemp /\ thr[t].step = thr[u].step
                /\ thr[t].temp = thr[u].temp
          /\ Updating(t) =>
                /\ thr[t].gen = thr[t].itemp * mcsteps + thr[t].step
                /\ thr[t].temp = sched[thr[t].itemp]
          /\ thr[t].gen > thr[u].gen =>
                /\ thr[u].pc = "barrier" /\ thr[t].gen = thr[u].gen + 1

\* a worker in the second sweep, at its decision, while the other is still
\* at the barrier that ended the first
C8_Witness ==
    /\ variant = "Anneal_parallel" /\ pc = "par" /\ nthreads = 2 /\ nspins = 2
    /\ thr[0].gen = 1 /\ thr[0].pc = "decide"
    /\ thr[1].gen = 0 /\ thr[1].pc = "barrier"

\* the visits of the running sweep, added up
VisitsInSweep == SumOver(DOMAIN visited, visited)

\* C9: Anneal runs schedsize * mcsteps sweeps, the schedule values in index
\* order with mcsteps sweeps each, every sweep visiting every spin once and
\* every decision taken on the current spins; a step of QuantumAnneal visits
\* every (slice, spin) once, and perpJ is computed once per schedule value,
\* before its steps
C9_SweepsInOrderVisitEachOnce ==
    /\ (variant = "Anneal" /\ pc # "call" /\ mcsteps >= 0) =>
          /\ \A j \in 1..Len(sweeps) : sweeps[j] = (j - 1) \div mcsteps
          /\ pc = "done" => Len(sweeps) = schedsize * mcsteps /\ VisitsInSweep = 0
          /\ pc # "done" =>
                /\ Len(sweeps) = itemp * mcsteps + step
                /\ temp = sched[itemp]
                /\ \A i \in xrange(nspins) :
                      visited[i] = IF \E p \in 0..(pos - 1) : sidx_shuff[p] = i THEN 1
                                   ELSE IF pc = "decide" /\ sidx = i THEN 1 ELSE 0
                /\ \A i \in xrange(nspins) : \E p \in xrange(nspins) : sidx_shuff[p] = i
          /\ nvisits = Len(sweeps) * nspins + VisitsInSweep
          /\ pc = "decide" =>
                ediff = EnergyDifference(svec[sidx], sidx, nbs[sidx],
                            [si \in DOMAIN nbs[sidx] |-> svec[nbs[sidx][si][1]]])
    /\ (variant = "QuantumAnneal" /\ pc # "call" /\ ~NonPositiveCount) =>
          /\ \A j \in 1..Len(sweeps) : sweeps[j] = (j - 1) \div mcsteps
          /\ \A j \in 1..Len(perpJ_log) : perpJ_log[j] = j - 1
          /\ pc = "done" =>
                /\ Len(sweeps) = schedsize * mcsteps /\ VisitsInSweep = 0
                /\ Len(perpJ_log) = schedsize
          /\ pc # "done" =>
                /\ Len(sweeps) = itemp * mcsteps + step
                /\ Len(perpJ_log) = itemp + 1
                /\ perpJ = PerpJ(sched[itemp], trotterSlices, annealingTemperature)
                /\ \A c \in DOMAIN visited :
                      visited[c] =
                         IF \E p \in 0..(slice_pos - 1) : slice_shuff[p] = c[1] THEN 1
                         ELSE IF c[1] # islice THEN 0
                         ELSE IF \E p \in 0..(pos - 1) : sidx_shuff[p] = c[2] THEN 1
                         ELSE IF pc # "acc" /\ ispin = c[2] THEN 1 ELSE 0
          /\ nvisits = Len(sweeps) * nSpins * trotterSlices + VisitsInSweep

\* Anneal returned after two schedule values of one sweep over two spins
C9_Witness ==
    /\ variant = "Anneal" /\ pc = "done" /\ schedsize = 2 /\ mcsteps = 1
    /\ nspins = 2 /\ sweeps = <<0, 1>> /\ nvisits = 4 /\ svec # init

\* C10: the unpacking loop of Anneal_multispin runs over the packed words
\* 0..nspins-1 and no further
C10_UnpackStaysInBounds ==
    (variant = "Anneal_multispin" /\ pc = "done") => unpack_idx = xrange(nspins)

====
